---- MODULE Spec2Model ----
(***************************************************************************)
(* Lease database (LeaseDB), accounting crawler and expiration policy of   *)
(* the storage server: src/allmydata/storage/leasedb.py and expiration.py. *)
(*                                                                         *)
(* The tables of the sqlite schema are sets of rows.  A LeaseDB method is  *)
(* an operator from a database value (and the call's arguments) to the     *)
(* database afterwards, the exception raised and the value returned; an    *)
(* action applies one method to the state.                                 *)
(***************************************************************************)
EXTENDS Integers, Sequences, FiniteSets, TLC

(***************************************************************************)
(* Program constants.                                                      *)
(***************************************************************************)
SHARETYPE_IMMUTABLE == 0
SHARETYPE_MUTABLE == 1
SHARETYPE_CORRUPTED == 2
SHARETYPE_UNKNOWN == 3

STATE_COMING == 0
STATE_STABLE == 1
STATE_GOING == 2

DAY == 24*60*60
MONTH == 30*DAY

ANONYMOUS_ACCOUNTID == 0
STARTER_LEASE_ACCOUNTID == 1
STARTER_LEASE_DURATION == 2*MONTH

\* Python's None and SQL's NULL, in an integer position.
None == 0 - 1

(***************************************************************************)
(* Bounds of the model.                                                    *)
(***************************************************************************)
\* API calls and backend steps in one run.
MaxOps == 4

(***************************************************************************)
(* Storage indexes.  A storage index is <<enc, prefix, id>>: enc counts    *)
(* the base-32 encodings applied to the 16 bytes named id (0: the binary   *)
(* storage index, 1: the 26-character string si_s), prefix is the first    *)
(* two characters of si_s.                                                 *)
(***************************************************************************)
si_b2a(storage_index) == <<storage_index[1] + 1, storage_index[2], storage_index[3]>>

si_a2b(si_s) == <<si_s[1] - 1, si_s[2], si_s[3]>>

\* si_s[:2]: the first two characters of an encoded string.
PrefixOf(si_s) == <<si_s[1], si_s[2]>>

\* The binary storage indexes the callers use.
StorageIndexes == {<<0, "aa", 1>>, <<0, "ab", 2>>}

Shnums == {0, 1}

Prefixes == {PrefixOf(si_b2a(si)) : si \in StorageIndexes}

\* The shares the storage protocol and the backend work on.
ShareIds == {<<si_b2a(si), n>> : si \in {<<0, "aa", 1>>}, n \in Shnums} \cup {<<si_b2a(<<0, "ab", 2>>), 0>>}

\* used_space as add_new_share gets it, and as change_share_space sets it.
NewUsedSpaces == {1000}

ChangedUsedSpaces == {2000}

\* (used_space, backend_key) as mark_share_as_stable gets them.
StableArgs == {<<1000, None>>, <<2000, 77>>}

\* (ownerid, renewal_time, expiration_time) as add_or_renew_leases gets them;
\* account 7 has no row in `accounts`.
RenewArgs == {<<ANONYMOUS_ACCOUNTID, 1000, 2000>>, <<ANONYMOUS_ACCOUNTID, 3000, 4000>>,
              <<STARTER_LEASE_ACCOUNTID, 1000, 2000>>, <<7, 1000, 2000>>}

\* (storage_index, shnum) as add_or_renew_leases gets them.
RenewTargets == {<<si_a2b(id[1]), id[2]>> : id \in ShareIds} \cup {<<si, None>> : si \in StorageIndexes}

\* time.time() as the clock reads it when a starter lease is added.
ClockTimes == {5000}

VARIABLES
    shares,       \* table `shares`, as the connection sees it
    leases,       \* table `leases`
    lease_seq,    \* AUTOINCREMENT sequence of leases.id
    accounts,     \* table `accounts` (the ids)
    dirty,        \* LeaseDB._dirty
    durable,      \* the tables as of the last commit
    disk,         \* the share files of the backend: (si_s, shnum)
    last,         \* the last call: method, arguments, exception, value
    nops,         \* number of calls made
    crawler_history,           \* table `crawler_history`: rows (cycle, json)
    retained_history_entries,  \* LeaseDB.retained_history_entries
    added_cycles,              \* the cycles add_history_entry was called with, whether in increasing
                               \* order, and whether the latest call found a row for its cycle
    policy,       \* the ExpirationPolicy constructed, if any
    evals,        \* the latest calls of should_expire: arguments and result
    lease_age_histogram,  \* state["cycle-to-date"]["lease-age-histogram"]: (bin_start, bin_end) -> count
    slice         \* what a slice in progress has read of the disk and of the database, if any

vars == <<shares, leases, lease_seq, accounts, dirty, durable, disk, last, nops,
          crawler_history, retained_history_entries, added_cycles, policy, evals,
          lease_age_histogram, slice>>

(***************************************************************************)
(* The database value a method works on.                                   *)
(***************************************************************************)
DB ==
    [shares |-> shares, leases |-> leases, lease_seq |-> lease_seq, accounts |-> accounts,
     crawler_history |-> crawler_history, retained_history_entries |-> retained_history_entries,
     dirty |-> dirty, durable |-> durable]

Ret(db, raised, value) == [db |-> db, raised |-> raised, value |-> value]

NoException == "None"

(***************************************************************************)
(* Schema constraints (LEASE_SCHEMA_V1).                                   *)
(***************************************************************************)
SharesPrimaryKey_Unchecked(table, row) == TRUE

\* PRIMARY KEY (storage_index, shnum) of `shares`.
SharesPrimaryKeyOK(table, row) == \A r \in table : ~(r.storage_index = row.storage_index /\ r.shnum = row.shnum)

\* The `not null` columns of `leases`.
LeasesNotNullOK(row) == row.shnum # None /\ row.account_id # None /\ row.renewal_time # None /\ row.expiration_time # None

\* dbutil.get_db turns foreign key enforcement on for the connection.
ForeignKeysEnforced == TRUE

LeasesForeignKeys_ShareOnly(db, row) == \E s \in db.shares : s.storage_index = row.storage_index /\ s.shnum = row.shnum

\* FOREIGN KEY (storage_index, shnum) REFERENCES shares, FOREIGN KEY (account_id) REFERENCES accounts.
LeasesForeignKeysOK(db, row) ==
    /\ \E s \in db.shares : s.storage_index = row.storage_index /\ s.shnum = row.shnum
    /\ row.account_id \in db.accounts

\* INSERT INTO leases VALUES (None, ...): the id is taken from the sequence.
InsertLease(db, si_s, shnum, account_id, renewal_time, expiration_time) ==
    LET row == [id |-> db.lease_seq + 1, storage_index |-> si_s, shnum |-> shnum, account_id |-> account_id,
                renewal_time |-> renewal_time, expiration_time |-> expiration_time]
    IN  IF ~LeasesNotNullOK(row) \/ (ForeignKeysEnforced /\ ~LeasesForeignKeysOK(db, row))
        THEN Ret(db, "IntegrityError", None)
        ELSE Ret([db EXCEPT !.leases = @ \cup {row}, !.lease_seq = @ + 1], NoException, None)

(***************************************************************************)
(* LeaseDB: share management.                                              *)
(***************************************************************************)
get_shares_for_prefix(db, prefix) ==
    {<<<<s.storage_index, s.shnum>>, <<s.used_space, s.sharetype>>>> : s \in {r \in db.shares : r.prefix = prefix}}

add_new_share(db, storage_index, shnum, used_space, sharetype) ==
    LET si_s == si_b2a(storage_index)
        prefix == PrefixOf(si_s)
        d1 == [db EXCEPT !.dirty = TRUE]
        row == [storage_index |-> si_s, shnum |-> shnum, prefix |-> prefix, backend_key |-> None,
                used_space |-> used_space, sharetype |-> sharetype, state |-> STATE_COMING]
    IN  IF SharesPrimaryKeyOK(d1.shares, row)
        THEN Ret([d1 EXCEPT !.shares = @ \cup {row}], NoException, None)
        ELSE Ret(d1, "ShareAlreadyInDatabaseError", None)

add_starter_lease(db, storage_index, shnum, now) ==
    LET si_s == si_b2a(storage_index)
        d1 == [db EXCEPT !.dirty = TRUE]
        renewal_time == now
    IN  InsertLease(d1, si_s, shnum, STARTER_LEASE_ACCOUNTID, renewal_time, renewal_time + STARTER_LEASE_DURATION)

StableWhere_AnyState(r, si_s, shnum) == r.storage_index = si_s /\ r.shnum = shnum

\* WHERE storage_index=? AND shnum=? AND state!=STATE_GOING
StableWhere(r, si_s, shnum) == r.storage_index = si_s /\ r.shnum = shnum /\ r.state # STATE_GOING

\* UPDATE shares SET state, used_space, backend_key WHERE ...; rowcount < 1 raises
mark_share_as_stable(db, storage_index, shnum, used_space, backend_key) ==
    LET si_s == si_b2a(storage_index)
        d1 == [db EXCEPT !.dirty = TRUE]
        matched == {r \in d1.shares : StableWhere(r, si_s, shnum)}
        updated == {[r EXCEPT !.state = STATE_STABLE, !.used_space = used_space, !.backend_key = backend_key] : r \in matched}
    IN  IF Cardinality(matched) < 1
        THEN Ret(d1, "NonExistentShareError", None)
        ELSE Ret([d1 EXCEPT !.shares = (@ \ matched) \cup updated], NoException, None)

GoingWhere_AnyState(r, si_s, shnum) == r.storage_index = si_s /\ r.shnum = shnum

\* WHERE storage_index=? AND shnum=? AND state!=STATE_COMING
GoingWhere(r, si_s, shnum) == r.storage_index = si_s /\ r.shnum = shnum /\ r.state # STATE_COMING

\* UPDATE shares SET state WHERE ...; rowcount < 1 raises
mark_share_as_going(db, storage_index, shnum) ==
    LET si_s == si_b2a(storage_index)
        d1 == [db EXCEPT !.dirty = TRUE]
        matched == {r \in d1.shares : GoingWhere(r, si_s, shnum)}
        updated == {[r EXCEPT !.state = STATE_GOING] : r \in matched}
    IN  IF Cardinality(matched) < 1
        THEN Ret(d1, "NonExistentShareError", None)
        ELSE Ret([d1 EXCEPT !.shares = (@ \ matched) \cup updated], NoException, None)

DeletedLeasesWhere_AnyShnum(l, si_s, shnum) == l.storage_index = si_s

\* DELETE FROM leases WHERE storage_index=? AND shnum=?
DeletedLeasesWhere(l, si_s, shnum) == l.storage_index = si_s /\ l.shnum = shnum

DeletedSharesWhere_AnyShnum(r, si_s, shnum) == r.storage_index = si_s

\* DELETE FROM shares WHERE storage_index=? AND shnum=?
DeletedSharesWhere(r, si_s, shnum) == r.storage_index = si_s /\ r.shnum = shnum

\* The leases of the share are deleted first, then its row.
remove_deleted_share(db, storage_index, shnum) ==
    LET si_s == si_b2a(storage_index)
        d1 == [db EXCEPT !.dirty = TRUE]
        d2 == [d1 EXCEPT !.leases = {l \in @ : ~DeletedLeasesWhere(l, si_s, shnum)}]
        d3 == [d2 EXCEPT !.shares = {r \in @ : ~DeletedSharesWhere(r, si_s, shnum)}]
    IN  Ret(d3, NoException, None)

change_share_space(db, storage_index, shnum, used_space) ==
    LET si_s == si_b2a(storage_index)
        d1 == [db EXCEPT !.dirty = TRUE]
        matched == {r \in d1.shares : r.storage_index = si_s /\ r.shnum = shnum}
        updated == {[r EXCEPT !.used_space = used_space] : r \in matched}
    IN  IF Cardinality(matched) < 1
        THEN Ret(d1, "NonExistentShareError", None)
        ELSE Ret([d1 EXCEPT !.shares = (@ \ matched) \cup updated], NoException, None)

(***************************************************************************)
(* LeaseDB: lease management.                                              *)
(***************************************************************************)
\* UPDATE leases SET renewal_time, expiration_time WHERE id
UpdateLease(db, leaseid, renewal_time, expiration_time) ==
    [db EXCEPT !.leases = {IF l.id = leaseid
                           THEN [l EXCEPT !.renewal_time = renewal_time, !.expiration_time = expiration_time]
                           ELSE l : l \in @}]

\* The loop over the selected share rows; rows is the set of rows not yet
\* fetched.  The order of the rows of a SELECT without ORDER BY, and the row
\* fetchone() returns among several, are the database's choice: the result
\* is the set of outcomes.
RECURSIVE renew_rows(_, _, _, _, _, _, _)
renew_rows(db, rows, si_s, shnum, ownerid, renewal_time, expiration_time) ==
    IF rows = {}
    THEN {Ret(db, NoException, None)}
    ELSE UNION {
        LET found_shnum == row[2]
            found == {l \in db.leases : l.storage_index = si_s /\ l.shnum = found_shnum /\ l.account_id = ownerid}
            ins == InsertLease(db, si_s, shnum, ownerid, renewal_time, expiration_time)
        IN  IF found # {}
            THEN UNION {renew_rows(UpdateLease(db, l.id, renewal_time, expiration_time), rows \ {row},
                                   si_s, shnum, ownerid, renewal_time, expiration_time) : l \in found}
            ELSE IF ins.raised # NoException
                 THEN {ins}
                 ELSE renew_rows(ins.db, rows \ {row}, si_s, shnum, ownerid, renewal_time, expiration_time)
        : row \in rows}

NoSelectedShare_Ignored(shnum, rows) == FALSE

\* "if not rows: raise NonExistentShareError", in the branch of a given shnum.
NoSelectedShare(shnum, rows) == shnum # None /\ rows = {}

add_or_renew_leases(db, storage_index, shnum, ownerid, renewal_time, expiration_time) ==
    LET si_s == si_b2a(storage_index)
        d1 == [db EXCEPT !.dirty = TRUE]
        rows == IF shnum = None
                THEN {<<s.storage_index, s.shnum>> : s \in {r \in d1.shares : r.storage_index = si_s}}
                ELSE {<<s.storage_index, s.shnum>> : s \in {r \in d1.shares : r.storage_index = si_s /\ r.shnum = shnum}}
    IN  IF NoSelectedShare(shnum, rows)
        THEN {Ret(d1, "NonExistentShareError", None)}
        ELSE renew_rows(d1, rows, si_s, shnum, ownerid, renewal_time, expiration_time)

get_lease_ages(db, storage_index, shnum, now) ==
    LET si_s == si_b2a(storage_index)
    IN  {<<l.id, now - l.renewal_time>> : l \in {r \in db.leases : r.storage_index = si_s /\ r.shnum = shnum}}

\* shares s LEFT JOIN leases l ON (s.storage_index = l.storage_index AND s.shnum = l.shnum):
\* a joined row holds a share row and the lease row joined to it, l = {} when
\* no lease row matches (the columns of l are then NULL).
JoinOn_StorageIndexOnly(s, l) == s.storage_index = l.storage_index

\* ON (s.storage_index = l.storage_index AND s.shnum = l.shnum)
JoinOn(s, l) == s.storage_index = l.storage_index /\ s.shnum = l.shnum

LeftJoin(db) ==
    {[s |-> s, l |-> {l}] : <<s, l>> \in {p \in db.shares \X db.leases : JoinOn(p[1], p[2])}}
    \cup {[s |-> s, l |-> {}] : s \in {r \in db.shares : \A l \in db.leases : ~JoinOn(r, l)}}

\* SELECT DISTINCT s.storage_index, s.shnum, s.sharetype ... WHERE l.storage_index IS NULL
get_unleased_shares(db) ==
    {<<j.s.storage_index, j.s.shnum, j.s.sharetype>> : j \in {k \in LeftJoin(db) : k.l = {}}}

remove_expired_leases(db, expiration_policy) == Ret(db, "NotImplementedError", None)

commit(db, always) ==
    IF db.dirty \/ always
    THEN [db EXCEPT !.durable = [shares |-> db.shares, leases |-> db.leases, lease_seq |-> db.lease_seq,
                                 crawler_history |-> db.crawler_history],
                    !.dirty = FALSE]
    ELSE db

(***************************************************************************)
(* The crawler history: table `crawler_history`, UNIQUE INDEX on `cycle`.  *)
(* An entry is modelled by its "cycle-start-finish-times" item, a pair     *)
(* that finished_cycle builds as a tuple and another caller may build as a *)
(* list.  JSON has arrays only, and an array is read back as a list.       *)
(***************************************************************************)
DefaultRetainedHistoryEntries == 10

MaxCycle == 5

Cycles == 1..MaxCycle

RetainedValues == {1, 2, 3}

Entries == {<<"tuple", 10, 20>>, <<"list", 30, 40>>}

\* simplejson.dumps
dumps(entry) == <<"array", entry[2], entry[3]>>

\* simplejson.loads
loads(json) == <<"list", json[2], json[3]>>

RECURSIVE sorted(_)
sorted(rows) ==
    IF rows = {}
    THEN <<>>
    ELSE LET least == CHOOSE x \in rows : \A y \in rows : x <= y
         IN  <<least>> \o sorted(rows \ {least})

\* list[i] of Python: a negative index counts from the end, and -0 is 0.
PyIndex(list, i) == IF i < 0 THEN list[Len(list) + i + 1] ELSE list[i + 1]

InsertOrIgnore(table, cycle, json) ==
    IF \E r \in table : r.cycle = cycle
    THEN table
    ELSE table \cup {[cycle |-> cycle, json |-> json]}

\* INSERT OR REPLACE INTO `crawler_history` VALUES (?,?)
InsertOrReplace(table, cycle, json) ==
    {r \in table : r.cycle # cycle} \cup {[cycle |-> cycle, json |-> json]}

add_history_entry(db, cycle, entry) ==
    LET json == dumps(entry)
        rows == {r.cycle : r \in db.crawler_history}
        retained ==
            IF Cardinality(rows) >= db.retained_history_entries
            THEN LET first_cycle_to_retain == PyIndex(sorted(rows), 0 - (db.retained_history_entries - 1))
                 IN  {r \in db.crawler_history : ~(r.cycle < first_cycle_to_retain)}
            ELSE db.crawler_history
    IN  Ret(commit([db EXCEPT !.crawler_history = InsertOrReplace(retained, cycle, json)], TRUE),
            NoException, None)

\* dict((row[0], simplejson.loads(row[1])) for each row)
get_history(db) ==
    [cycle \in {r.cycle : r \in db.crawler_history} |->
        loads((CHOOSE r \in db.crawler_history : r.cycle = cycle).json)]

(***************************************************************************)
(* ExpirationPolicy (expiration.py).  The arguments are a bool, a mode and  *)
(* two values that are each an int or None.                                *)
(***************************************************************************)
PolicyModes == {"age", "cutoff-date"}

OverrideDurations == {None, 100}

CutoffDates == {None, 500}

\* current_time, and the (renewal_time, expiration_time) of a lease, as should_expire gets them.
PolicyTimes == {499, 500, 1050, 1100, 1101, 2000}

PolicyLeases == {<<499, 2000>>, <<501, 2000>>, <<1000, 2000>>}

\* isinstance(x, int) for a value that is an int or None.
IsInt(x) == x # None

CutoffDatePrecondition_Unchecked(mode, cutoff_date) == TRUE

\* isinstance(cutoff_date, int) or (mode != "cutoff-date" and cutoff_date is None)
CutoffDatePrecondition(mode, cutoff_date) ==
    IsInt(cutoff_date) \/ (mode # "cutoff-date" /\ cutoff_date = None)

\* allmydata.util.assertutil.precondition: returns when the condition holds, raises otherwise.
precondition(condition) == condition

Preconditions(enabled, mode, override_lease_duration, cutoff_date) ==
    /\ precondition(enabled \in BOOLEAN)
    /\ precondition(mode \in {"age", "cutoff-date"})
    /\ precondition(IsInt(override_lease_duration) \/ override_lease_duration = None)
    /\ precondition(CutoffDatePrecondition(mode, cutoff_date))

NoPolicy ==
    [state |-> "none", enabled |-> FALSE, mode |-> "", override_lease_duration |-> None, cutoff_date |-> None]

\* ExpirationPolicy.__init__: the object, or the arguments a failed precondition rejected.
ExpirationPolicy(enabled, mode, override_lease_duration, cutoff_date) ==
    [state |-> IF Preconditions(enabled, mode, override_lease_duration, cutoff_date)
               THEN "constructed" ELSE "rejected",
     enabled |-> enabled, mode |-> mode,
     override_lease_duration |-> override_lease_duration, cutoff_date |-> cutoff_date]

AgeExpiryTime_NoOverride(self, renewal_time, expiration_time) == expiration_time

AgeExpiryTime(self, renewal_time, expiration_time) ==
    IF self.override_lease_duration = None
    THEN expiration_time
    ELSE renewal_time + self.override_lease_duration

PastExpiry_Reversed(current_time, expiry_time) == current_time <= expiry_time

PastExpiry(current_time, expiry_time) == current_time >= expiry_time

should_expire(self, current_time, renewal_time, expiration_time) ==
    IF ~self.enabled
    THEN FALSE
    ELSE LET expiry_time == IF self.mode = "age"
                            THEN AgeExpiryTime(self, renewal_time, expiration_time)
                            ELSE self.cutoff_date
         IN  PastExpiry(current_time, expiry_time)

(***************************************************************************)
(* AccountingCrawler.                                                      *)
(***************************************************************************)
\* A share file of the backend is <<si_s, shnum, size>>.
FileSizes == {2000}

DiskShareIds(files) == {<<f[1], f[2]>> : f \in files}

get_used_space(files, shareid) == (CHOOSE f \in files : f[1] = shareid[1] /\ f[2] = shareid[2])[3]

\* "for (si_s, shnum) in new_shares": the loop that adds the discovered
\* shares, in the order the set yields them.
RECURSIVE add_new_shares(_, _, _, _)
add_new_shares(db, new_shares, files, now) ==
    IF new_shares = {}
    THEN {Ret(db, NoException, None)}
    ELSE UNION {
        LET si_s == shareid[1]
            shnum == shareid[2]
            used_space == get_used_space(files, shareid)
            sharetype == SHARETYPE_UNKNOWN
            added == add_new_share(db, si_a2b(si_s), shnum, used_space, sharetype)
            leased == add_starter_lease(added.db, si_s, shnum, now)
        IN  IF added.raised # NoException
            THEN {added}
            ELSE IF leased.raised # NoException
                 THEN {leased}
                 ELSE add_new_shares(leased.db, new_shares \ {shareid}, files, now)
        : shareid \in new_shares}

\* "for (si_s, shnum, sharetype) in deleted_shares": unpacking a shareid
\* into three names raises ValueError unless it has three items.
RECURSIVE remove_deleted_shares(_, _)
remove_deleted_shares(db, deleted_shares) ==
    IF deleted_shares = {}
    THEN {Ret(db, NoException, None)}
    ELSE UNION {
        IF Len(shareid) # 3
        THEN {Ret(db, "ValueError", None)}
        ELSE remove_deleted_shares(remove_deleted_share(db, si_a2b(shareid[1]), shareid[2]).db, deleted_shares \ {shareid})
        : shareid \in deleted_shares}

\* int(x/y) of Python, the quotient being a float: the fraction is dropped,
\* toward zero.
int_quotient(x, y) == IF x >= 0 THEN x \div y ELSE 0 - ((0 - x) \div y)

\* A dict is the set of its (key, value) items.
increment(d, k, delta) ==
    LET d0 == IF \E item \in d : item[1] = k THEN d ELSE d \cup {<<k, 0>>}
    IN  {IF item[1] = k THEN <<k, item[2] + delta>> ELSE item : item \in d0}

add_lease_age_to_histogram(histogram, age) ==
    LET bin_interval == 24*60*60
        bin_number == int_quotient(age, bin_interval)
        bin_start == bin_number * bin_interval
        bin_end == bin_start + bin_interval
        k == <<bin_start, bin_end>>
    IN  increment(histogram, k, 1)

\* What a slice reads first: the shares on disk under the prefix and the
\* rows of the prefix.
list_disk_shares(prefix, files) == DiskShareIds({f \in files : PrefixOf(f[1]) = prefix})

list_db_shares(db, prefix) == {e[1] : e \in get_shares_for_prefix(db, prefix)}

\* The loop over db_sharemap: the age of every lease of every row of the
\* prefix goes into the histogram.  The other counters of the cycle
\* (self.state["cycle-to-date"]["space-recovered"]) are read by no statement
\* of the slice and are not part of the state here.
RECURSIVE add_lease_ages(_, _)
add_lease_ages(histogram, ages) ==
    IF ages = {}
    THEN histogram
    ELSE LET a == CHOOSE x \in ages : TRUE
         IN  add_lease_ages(add_lease_age_to_histogram(histogram, a[2]), ages \ {a})

examine_shares(db, prefix, histogram, start_slice) ==
    add_lease_ages(histogram,
                   UNION {get_lease_ages(db, si_a2b(shareid[1]), shareid[2], start_slice)
                          : shareid \in list_db_shares(db, prefix)})

\* The rest of the slice: the discovered shares are added, the vanished ones
\* removed, and the slice commits.  The outcomes differ by the order in
\* which the sets are iterated.
reconcile(db, disk_shares, db_shares, files, now) ==
    LET new_shares == disk_shares \ db_shares
        deleted_shares == db_shares \ disk_shares
    IN  UNION {
            IF a.raised # NoException
            THEN {a}
            ELSE {IF r.raised # NoException THEN r ELSE Ret(commit(r.db, FALSE), NoException, None)
                  : r \in remove_deleted_shares(a.db, deleted_shares)}
        : a \in add_new_shares(db, new_shares, files, now)}

\* One slice, run without interruption.
process_prefixdir(db, prefix, files, now) ==
    reconcile(db, list_disk_shares(prefix, files), list_db_shares(db, prefix), files, now)

\* The expiration sweep, which leasedb.py does not hold: remove_expired_leases,
\* then for each share of get_unleased_shares: mark_share_as_going and commit
\* (its docstring), the backend's delete of the file, and remove_deleted_share
\* when the delete succeeded.  `failing` are the shares whose backend delete
\* fails; a share that cannot be marked GOING is skipped.
SweepOutcome(db, files, raised) == [db |-> db, files |-> files, raised |-> raised]

RECURSIVE sweep_unleased_shares(_, _, _, _)
sweep_unleased_shares(db, files, unleased, failing) ==
    IF unleased = {}
    THEN {SweepOutcome(db, files, NoException)}
    ELSE UNION {
        LET si_s == share[1]
            shnum == share[2]
            going == mark_share_as_going(db, si_a2b(si_s), shnum)
            marked == commit(going.db, FALSE)
        IN  IF going.raised # NoException
            THEN sweep_unleased_shares(going.db, files, unleased \ {share}, failing)
            ELSE IF <<si_s, shnum>> \in failing
                 THEN sweep_unleased_shares(marked, files, unleased \ {share}, failing)
                 ELSE sweep_unleased_shares(remove_deleted_share(marked, si_a2b(si_s), shnum).db,
                                            {f \in files : ~(f[1] = si_s /\ f[2] = shnum)},
                                            unleased \ {share}, failing)
        : share \in unleased}

expiration_sweep(db, files, expiration_policy, failing) ==
    LET expired == remove_expired_leases(db, expiration_policy)
    IN  IF expired.raised # NoException
        THEN {SweepOutcome(expired.db, files, expired.raised)}
        ELSE sweep_unleased_shares(expired.db, files, get_unleased_shares(expired.db), failing)

(***************************************************************************)
(* The state machine.                                                      *)
(***************************************************************************)
NoPrefix == <<0, "">>

NoStorageIndex == <<0, "", 0>>

NoneAdded == [cycles |-> {}, increasing |-> TRUE, replaced |-> FALSE]

NoSlice == [prefix |-> NoPrefix, disk_shares |-> {}, db_shares |-> {}, pending |-> FALSE]

Call(op, storage_index, shnum, prefix, args, raised) ==
    [op |-> op, storage_index |-> storage_index, shnum |-> shnum, prefix |-> prefix, args |-> args, raised |-> raised]

Init ==
    /\ shares = {}
    /\ leases = {}
    /\ lease_seq = 0
    /\ accounts = {ANONYMOUS_ACCOUNTID, STARTER_LEASE_ACCOUNTID}
    /\ dirty = FALSE
    /\ durable = [shares |-> {}, leases |-> {}, lease_seq |-> 0, crawler_history |-> {}]
    /\ disk = {}
    /\ last = Call("__init__", NoStorageIndex, None, NoPrefix, <<>>, NoException)
    /\ nops = 0
    /\ crawler_history = {}
    /\ retained_history_entries = DefaultRetainedHistoryEntries
    /\ added_cycles = NoneAdded
    /\ policy = NoPolicy
    /\ evals = <<>>
    /\ lease_age_histogram = {}
    /\ slice = NoSlice

\* The state after a method returned or raised.
Returned(r, call) ==
    /\ nops < MaxOps
    /\ nops' = nops + 1
    /\ shares' = r.db.shares
    /\ leases' = r.db.leases
    /\ lease_seq' = r.db.lease_seq
    /\ dirty' = r.db.dirty
    /\ durable' = r.db.durable
    /\ crawler_history' = r.db.crawler_history
    /\ last' = call
    /\ UNCHANGED <<accounts, disk, retained_history_entries, added_cycles, policy, evals>>

\* The same for a method of LeaseDB, which leaves the crawler's state alone.
Returns(r, call) ==
    /\ Returned(r, call)
    /\ UNCHANGED <<lease_age_histogram, slice>>

Call_add_new_share ==
    \E id \in ShareIds, used_space \in NewUsedSpaces :
        \E r \in {add_new_share(DB, si_a2b(id[1]), id[2], used_space, SHARETYPE_IMMUTABLE)} :
            Returns(r, Call("add_new_share", si_a2b(id[1]), id[2], NoPrefix, <<>>, r.raised))

Call_add_starter_lease ==
    \E id \in ShareIds, now \in ClockTimes :
        \E r \in {add_starter_lease(DB, si_a2b(id[1]), id[2], now)} :
            Returns(r, Call("add_starter_lease", si_a2b(id[1]), id[2], NoPrefix, <<>>, r.raised))

Call_mark_share_as_stable ==
    \E id \in ShareIds, a \in StableArgs :
        \E r \in {mark_share_as_stable(DB, si_a2b(id[1]), id[2], a[1], a[2])} :
            Returns(r, Call("mark_share_as_stable", si_a2b(id[1]), id[2], NoPrefix, <<>>, r.raised))

Call_mark_share_as_going ==
    \E id \in ShareIds :
        \E r \in {mark_share_as_going(DB, si_a2b(id[1]), id[2])} :
            Returns(r, Call("mark_share_as_going", si_a2b(id[1]), id[2], NoPrefix, <<>>, r.raised))

Call_remove_deleted_share ==
    \E id \in ShareIds :
        \E r \in {remove_deleted_share(DB, si_a2b(id[1]), id[2])} :
            Returns(r, Call("remove_deleted_share", si_a2b(id[1]), id[2], NoPrefix, <<>>, r.raised))

Call_change_share_space ==
    \E id \in ShareIds, used_space \in ChangedUsedSpaces :
        \E r \in {change_share_space(DB, si_a2b(id[1]), id[2], used_space)} :
            Returns(r, Call("change_share_space", si_a2b(id[1]), id[2], NoPrefix, <<>>, r.raised))

Call_add_or_renew_leases ==
    \E target \in RenewTargets, a \in RenewArgs :
        \E r \in add_or_renew_leases(DB, target[1], target[2], a[1], a[2], a[3]) :
            Returns(r, Call("add_or_renew_leases", target[1], target[2], NoPrefix, a, r.raised))

\* The value returned is get_unleased_shares(DB); the call changes nothing.
Call_get_unleased_shares ==
    \E r \in {Ret(DB, NoException, get_unleased_shares(DB))} :
        Returns(r, Call("get_unleased_shares", NoStorageIndex, None, NoPrefix, <<>>, r.raised))

Call_commit ==
    \E r \in {Ret(commit(DB, FALSE), NoException, None)} :
        Returns(r, Call("commit", NoStorageIndex, None, NoPrefix, <<>>, r.raised))

\* start_slice and the time.time() of the starter leases are one clock reading here.
Call_process_prefixdir ==
    \E prefix \in Prefixes, now \in ClockTimes :
        \E r \in process_prefixdir(DB, prefix, disk, now) :
            /\ Returned(r, Call("process_prefixdir", NoStorageIndex, None, prefix, <<>>, r.raised))
            /\ lease_age_histogram' = examine_shares(DB, prefix, lease_age_histogram, now)
            /\ UNCHANGED slice

\* The storage backend writes a share file (an upload, or a file put there out of band).
Backend_write ==
    \E id \in ShareIds \ DiskShareIds(disk), size \in FileSizes :
        /\ nops < MaxOps
        /\ nops' = nops + 1
        /\ disk' = disk \cup {<<id[1], id[2], size>>}
        /\ last' = Call("backend_write", si_a2b(id[1]), id[2], NoPrefix, <<>>, NoException)
        /\ UNCHANGED <<shares, leases, lease_seq, accounts, dirty, durable>>
        /\ UNCHANGED <<crawler_history, retained_history_entries, added_cycles, policy, evals>>
        /\ UNCHANGED <<lease_age_histogram, slice>>

\* A share file goes away (the backend deletes it, or it is removed out of band).
Backend_delete ==
    \E f \in disk :
        /\ nops < MaxOps
        /\ nops' = nops + 1
        /\ disk' = disk \ {f}
        /\ last' = Call("backend_delete", si_a2b(f[1]), f[2], NoPrefix, <<>>, NoException)
        /\ UNCHANGED <<shares, leases, lease_seq, accounts, dirty, durable>>
        /\ UNCHANGED <<crawler_history, retained_history_entries, added_cycles, policy, evals>>
        /\ UNCHANGED <<lease_age_histogram, slice>>

\* (expiration policy, clock reading) at a call of remove_expired_leases.
ExpireArgs == {<<ExpirationPolicy(TRUE, "age", 100, None), now>> : now \in {1050, 1101}}

Call_remove_expired_leases ==
    \E a \in ExpireArgs :
        \E r \in {remove_expired_leases(DB, a[1])} :
            Returns(r, Call("remove_expired_leases", NoStorageIndex, None, NoPrefix, a, r.raised))

\* (expiration policy, clock reading, shares whose backend delete fails) of a sweep.
SweepArgs == {<<ExpirationPolicy(TRUE, "age", 100, None), 1101, failing>> : failing \in {{}, ShareIds}}

Expiration_sweep ==
    \E a \in SweepArgs :
        \E r \in expiration_sweep(DB, disk, a[1], a[3]) :
            /\ nops < MaxOps
            /\ nops' = nops + 1
            /\ shares' = r.db.shares
            /\ leases' = r.db.leases
            /\ lease_seq' = r.db.lease_seq
            /\ dirty' = r.db.dirty
            /\ durable' = r.db.durable
            /\ disk' = r.files
            /\ last' = Call("expiration_sweep", NoStorageIndex, None, NoPrefix, a, r.raised)
            /\ UNCHANGED <<accounts, crawler_history, retained_history_entries, added_cycles, policy, evals>>
            /\ UNCHANGED <<lease_age_histogram, slice>>

Next ==
    \/ Call_add_new_share
    \/ Call_add_starter_lease
    \/ Call_mark_share_as_stable
    \/ Call_mark_share_as_going
    \/ Call_remove_deleted_share
    \/ Call_change_share_space
    \/ Call_add_or_renew_leases
    \/ Call_get_unleased_shares
    \/ Call_commit
    \/ Call_remove_expired_leases
    \/ Call_process_prefixdir
    \/ Expiration_sweep
    \/ Backend_write
    \/ Backend_delete

Spec == Init /\ [][Next]_vars

(***************************************************************************)
(* The crawler history on its own: retained_history_entries is set before  *)
(* the first entry is added, then entries are added and read.              *)
(***************************************************************************)
LeaseTables == <<shares, leases, lease_seq, accounts, disk, nops, lease_age_histogram, slice>>

Set_retained_history_entries ==
    \E n \in RetainedValues :
        /\ last.op = "__init__"
        /\ retained_history_entries = DefaultRetainedHistoryEntries
        /\ retained_history_entries' = n
        /\ UNCHANGED <<LeaseTables, dirty, durable, last, crawler_history, added_cycles, policy, evals>>

Call_add_history_entry ==
    \E cycle \in Cycles, entry \in Entries :
        \E r \in {add_history_entry(DB, cycle, entry)} :
            /\ crawler_history' = r.db.crawler_history
            /\ dirty' = r.db.dirty
            /\ durable' = r.db.durable
            /\ added_cycles' = [cycles |-> added_cycles.cycles \cup {cycle},
                                increasing |-> added_cycles.increasing /\ \A c \in added_cycles.cycles : c < cycle,
                                replaced |-> \E row \in crawler_history : row.cycle = cycle]
            /\ last' = Call("add_history_entry", NoStorageIndex, None, NoPrefix, <<cycle, entry>>, r.raised)
            /\ UNCHANGED <<LeaseTables, retained_history_entries, policy, evals>>

Call_get_history ==
    /\ last' = Call("get_history", NoStorageIndex, None, NoPrefix, <<>>, NoException)
    /\ UNCHANGED <<LeaseTables, dirty, durable, crawler_history, retained_history_entries, added_cycles, policy, evals>>

NextHistory ==
    \/ Set_retained_history_entries
    \/ Call_add_history_entry
    \/ Call_get_history

SpecHistory == Init /\ [][NextHistory]_vars

(***************************************************************************)
(* A slice raced by the storage protocol: the slice has listed the disk    *)
(* and queried the rows of the prefix, and before it adds the shares it    *)
(* discovered an upload adds a row (the case of the slice's own            *)
(* `except ShareAlreadyInDatabaseError`).                                  *)
(***************************************************************************)
Slice_query ==
    \E prefix \in Prefixes, start_slice \in ClockTimes :
        /\ ~slice.pending
        /\ slice' = [prefix |-> prefix, disk_shares |-> list_disk_shares(prefix, disk),
                     db_shares |-> list_db_shares(DB, prefix), pending |-> TRUE]
        /\ lease_age_histogram' = examine_shares(DB, prefix, lease_age_histogram, start_slice)
        /\ UNCHANGED <<shares, leases, lease_seq, accounts, disk, nops, dirty, durable, last>>
        /\ UNCHANGED <<crawler_history, retained_history_entries, added_cycles, policy, evals>>

Slice_reconcile ==
    \E now \in ClockTimes :
        \E r \in reconcile(DB, slice.disk_shares, slice.db_shares, disk, now) :
            /\ slice.pending
            /\ Returned(r, Call("process_prefixdir", NoStorageIndex, None, slice.prefix, <<>>, r.raised))
            /\ slice' = NoSlice
            /\ UNCHANGED lease_age_histogram

NextRace ==
    \/ Backend_write
    \/ Call_add_new_share
    \/ Slice_query
    \/ Slice_reconcile

SpecRace == Init /\ [][NextRace]_vars

(***************************************************************************)
(* The lease-age histogram on its own: the ages are those get_lease_ages   *)
(* gives for a lease renewed at renewal_time, seen by a slice that started *)
(* at start_slice.                                                         *)
(***************************************************************************)
SliceStarts == {100000}

RenewalTimes == {13600, 13601, 99999, 100000, 100001, 186400, 186401}

\* _to_age of get_lease_ages
to_age(now, renewal_time) == now - renewal_time

Call_add_lease_age_to_histogram ==
    \E start_slice \in SliceStarts, renewal_time \in RenewalTimes :
        LET age == to_age(start_slice, renewal_time)
        IN  /\ nops < MaxOps
            /\ nops' = nops + 1
            /\ lease_age_histogram' = add_lease_age_to_histogram(lease_age_histogram, age)
            /\ last' = Call("add_lease_age_to_histogram", NoStorageIndex, None, NoPrefix, <<age>>, NoException)
            /\ UNCHANGED <<shares, leases, lease_seq, accounts, disk, slice, dirty, durable>>
            /\ UNCHANGED <<crawler_history, retained_history_entries, added_cycles, policy, evals>>

NextHistogram == Call_add_lease_age_to_histogram

SpecHistogram == Init /\ [][NextHistogram]_vars

(***************************************************************************)
(* The expiration policy on its own: one policy is constructed, then       *)
(* should_expire is asked about leases at various times.                   *)
(***************************************************************************)
Construct_ExpirationPolicy ==
    \E enabled \in BOOLEAN, mode \in PolicyModes,
       override_lease_duration \in OverrideDurations, cutoff_date \in CutoffDates :
        /\ policy = NoPolicy
        /\ policy' = ExpirationPolicy(enabled, mode, override_lease_duration, cutoff_date)
        /\ UNCHANGED <<LeaseTables, dirty, durable, last, crawler_history, retained_history_entries, added_cycles, evals>>

\* The two latest calls are kept.
Call_should_expire ==
    \E current_time \in PolicyTimes, lease \in PolicyLeases :
        /\ policy.state = "constructed"
        /\ evals' = (IF evals = <<>> THEN <<>> ELSE <<evals[Len(evals)]>>)
                     \o <<[current_time |-> current_time, renewal_time |-> lease[1], expiration_time |-> lease[2],
                            result |-> should_expire(policy, current_time, lease[1], lease[2])]>>
        /\ UNCHANGED <<LeaseTables, dirty, durable, last, crawler_history, retained_history_entries, added_cycles, policy>>

NextPolicy ==
    \/ Construct_ExpirationPolicy
    \/ Call_should_expire

SpecPolicy == Init /\ [][NextPolicy]_vars

(***************************************************************************)
(* Properties.                                                             *)
(***************************************************************************)
\* The rows of a table on one share.
RowsOf(table, si_s, shnum) == {r \in table : r.storage_index = si_s /\ r.shnum = shnum}

\* The call that led to the next state was this method on this share.
Called(op, si_s, shnum) == last'.op = op /\ si_b2a(last'.storage_index) = si_s /\ last'.shnum = shnum

\* C1: once a share row is GOING it never becomes STABLE.  mark_share_as_stable
\* on a GOING share raises NonExistentShareError and leaves the row as it was
\* (state, used_space, backend_key), and a GOING row is GOING in the next
\* state unless remove_deleted_share on that share removed it.
C1_GoingNeverStable ==
    [][\A r \in shares : r.state = STATE_GOING =>
        /\ Called("mark_share_as_stable", r.storage_index, r.shnum) =>
              last'.raised = "NonExistentShareError" /\ r \in shares'
        /\ \/ /\ RowsOf(shares', r.storage_index, r.shnum) # {}
              /\ \A q \in RowsOf(shares', r.storage_index, r.shnum) : q.state = STATE_GOING
           \/ /\ RowsOf(shares', r.storage_index, r.shnum) = {}
              /\ Called("remove_deleted_share", r.storage_index, r.shnum)]_vars

\* C1 witness: mark_share_as_stable was called on a GOING share whose used_space
\* and backend_key differ from the arguments of one of the calls.
C1_Witness ==
    /\ last.op = "mark_share_as_stable"
    /\ last.raised = "NonExistentShareError"
    /\ \E r \in RowsOf(shares, si_b2a(last.storage_index), last.shnum) :
          r.state = STATE_GOING /\ r.used_space = 2000 /\ r.backend_key = 77

\* At most one row of `shares` per (storage_index, shnum).
SharesUnique == \A r, q \in shares : (r.storage_index = q.storage_index /\ r.shnum = q.shnum) => r = q

C5_MarkGoing ==
    [][\A id \in ShareIds : Called("mark_share_as_going", id[1], id[2]) =>
        LET rows == RowsOf(shares, id[1], id[2])
        IN  IF \E r \in rows : r.state \in {STATE_STABLE, STATE_GOING}
            THEN /\ last'.raised = NoException
                 /\ shares' = (shares \ rows) \cup {[r EXCEPT !.state = STATE_GOING] : r \in rows}
            ELSE /\ last'.raised = "NonExistentShareError"
                 /\ shares' = shares]_vars

\* C5 witness: mark_share_as_going was refused on a COMING share.
C5_Witness ==
    /\ last.op = "mark_share_as_going"
    /\ last.raised = "NonExistentShareError"
    /\ \E r \in RowsOf(shares, si_b2a(last.storage_index), last.shnum) : r.state = STATE_COMING

\* C3: every lease row references a (storage_index, shnum) that has a share
\* row and an account_id that has an account row.
C3_LeasesReferential ==
    \A l \in leases :
        /\ RowsOf(shares, l.storage_index, l.shnum) # {}
        /\ l.account_id \in accounts

\* C3 witness: a slice of the crawler found a share on disk with no row, its
\* starter lease was refused, and the table holds a lease.
C3_Witness ==
    /\ last.op = "process_prefixdir"
    /\ last.raised = "IntegrityError"
    /\ leases # {}

\* The leases of one account on one share.
LeasesOf(table, si_s, shnum, account_id) == {l \in RowsOf(table, si_s, shnum) : l.account_id = account_id}

\* C4: there is at most one lease row per (storage_index, shnum, account_id).
C4_LeasesUnique ==
    \A l, m \in leases :
        (l.storage_index = m.storage_index /\ l.shnum = m.shnum /\ l.account_id = m.account_id) => l = m

\* C6: a call of add_or_renew_leases with a given shnum that returns leaves
\* exactly one lease of the account on the share, with the renewal_time and
\* expiration_time of the call, and changes no other lease.
C6_RenewUpsert ==
    [][\A id \in ShareIds, a \in RenewArgs :
        (Called("add_or_renew_leases", id[1], id[2]) /\ last'.args = a /\ last'.raised = NoException) =>
            /\ Cardinality(LeasesOf(leases', id[1], id[2], a[1])) = 1
            /\ \A l \in LeasesOf(leases', id[1], id[2], a[1]) : l.renewal_time = a[2] /\ l.expiration_time = a[3]
            /\ leases' \ LeasesOf(leases', id[1], id[2], a[1]) = leases \ LeasesOf(leases, id[1], id[2], a[1])]_vars

\* C7: a call of add_or_renew_leases with shnum None for an existing account
\* raises nothing and leaves, on every share row under the storage index,
\* exactly one lease of the account, on that share's shnum and with the
\* timestamps of the call; with no share row under the storage index it
\* changes no lease.
C7_RenewAllShares ==
    [][\A si \in StorageIndexes, a \in RenewArgs :
        (Called("add_or_renew_leases", si_b2a(si), None) /\ last'.args = a /\ a[1] \in accounts) =>
            /\ last'.raised = NoException
            /\ \A s \in shares : s.storage_index = si_b2a(si) =>
                  /\ Cardinality(LeasesOf(leases', s.storage_index, s.shnum, a[1])) = 1
                  /\ \A l \in LeasesOf(leases', s.storage_index, s.shnum, a[1]) :
                        l.renewal_time = a[2] /\ l.expiration_time = a[3]
            /\ (\A s \in shares : s.storage_index # si_b2a(si)) => leases' = leases]_vars

\* C8: add_or_renew_leases with a given shnum whose share has no row raises
\* NonExistentShareError and leaves the leases table as it was.
C8_RenewMissingShare ==
    [][\A id \in ShareIds :
        (Called("add_or_renew_leases", id[1], id[2]) /\ RowsOf(shares, id[1], id[2]) = {}) =>
            /\ last'.raised = "NonExistentShareError"
            /\ leases' = leases
            /\ lease_seq' = lease_seq]_vars

\* C8 witness: the call was refused for a share with no row while another
\* share holds a lease.
C8_Witness ==
    /\ last.op = "add_or_renew_leases"
    /\ last.shnum # None
    /\ last.raised = "NonExistentShareError"
    /\ RowsOf(shares, si_b2a(last.storage_index), last.shnum) = {}
    /\ leases # {}

\* C9: remove_deleted_share raises nothing, removes the share row and every
\* lease on that share and nothing else; when the share has no row it changes
\* no row.
C9_RemoveDeletedShare ==
    [][\A id \in ShareIds : Called("remove_deleted_share", id[1], id[2]) =>
        /\ last'.raised = NoException
        /\ shares' = shares \ RowsOf(shares, id[1], id[2])
        /\ leases' = leases \ RowsOf(leases, id[1], id[2])
        /\ RowsOf(shares, id[1], id[2]) = {} => (shares' = shares /\ leases' = leases)]_vars

\* C9 witness: a committed share with a lease was removed, with its lease,
\* by remove_deleted_share.
C9_Witness ==
    /\ last.op = "remove_deleted_share"
    /\ RowsOf(durable.shares, si_b2a(last.storage_index), last.shnum) # {}
    /\ RowsOf(durable.leases, si_b2a(last.storage_index), last.shnum) # {}
    /\ RowsOf(shares, si_b2a(last.storage_index), last.shnum) = {}
    /\ RowsOf(leases, si_b2a(last.storage_index), last.shnum) = {}

\* C10: get_unleased_shares with no limit returns the shares that have no
\* lease row on their (storage_index, shnum), each once, whatever their state.
C10_UnleasedShares ==
    get_unleased_shares(DB) =
        {<<s.storage_index, s.shnum, s.sharetype>> :
            s \in {r \in shares : Cardinality(RowsOf(leases, r.storage_index, r.shnum)) = 0}}

\* C10 witness: get_unleased_shares was called with a leased share and an
\* unleased share under one storage index.
C10_Witness ==
    /\ last.op = "get_unleased_shares"
    /\ \E r, q \in shares :
          /\ r.storage_index = q.storage_index
          /\ RowsOf(leases, r.storage_index, r.shnum) = {}
          /\ RowsOf(leases, q.storage_index, q.shnum) # {}

\* C11: remove_expired_leases(policy) deletes exactly the leases for which
\* should_expire(now, renewal_time, expiration_time) holds under the policy
\* and keeps every other lease.
C11_RemoveExpiredLeases ==
    [][last'.op = "remove_expired_leases" =>
        leases' = {l \in leases :
                     ~should_expire(last'.args[1], last'.args[2], l.renewal_time, l.expiration_time)}]_vars

(***************************************************************************)
(* Properties of the expiration policy, under SpecPolicy.                  *)
(***************************************************************************)
EnabledPolicy(mode) == policy.state = "constructed" /\ policy.enabled /\ policy.mode = mode

\* C12: with an enabled cutoff-date policy a lease counts as expired exactly
\* when its renewal_time is before the cutoff_date, whatever the time at
\* which should_expire is asked.
C12_CutoffDateByRenewalTime ==
    EnabledPolicy("cutoff-date") =>
        \A i \in DOMAIN evals : evals[i].result = (evals[i].renewal_time < policy.cutoff_date)

\* C13: should_expire returns false when the policy is disabled; enabled in
\* age mode it returns true iff now >= expiration_time when there is no
\* override_lease_duration, and iff now >= renewal_time + d when it is d.
C13_ShouldExpireAge ==
    \A i \in DOMAIN evals :
        /\ (policy.state = "constructed" /\ ~policy.enabled) => ~evals[i].result
        /\ (EnabledPolicy("age") /\ policy.override_lease_duration = None) =>
               evals[i].result = (evals[i].current_time >= evals[i].expiration_time)
        /\ (EnabledPolicy("age") /\ policy.override_lease_duration # None) =>
               evals[i].result = (evals[i].current_time >= evals[i].renewal_time + policy.override_lease_duration)

\* C13 witness: under an enabled age policy with override 100, the lease
\* renewed at 1000 was found not expired at 1050 and expired at 1101.
C13_Witness ==
    /\ EnabledPolicy("age")
    /\ policy.override_lease_duration = 100
    /\ Len(evals) = 2
    /\ evals[1].renewal_time = 1000 /\ evals[1].current_time = 1050 /\ ~evals[1].result
    /\ evals[2].renewal_time = 1000 /\ evals[2].current_time = 1101 /\ evals[2].result

\* C14: under one enabled cutoff-date policy, a lease that should_expire
\* found expired at a time now1 is found expired at every time now2 >= now1.
C14_ExpirationMonotonic ==
    EnabledPolicy("cutoff-date") =>
        \A i, j \in DOMAIN evals :
            (/\ evals[i].renewal_time = evals[j].renewal_time
             /\ evals[i].expiration_time = evals[j].expiration_time
             /\ evals[i].current_time <= evals[j].current_time
             /\ evals[i].result) => evals[j].result

\* C14 witness: under an enabled cutoff-date policy one lease was found
\* expired at a time and again at a later time.
C14_Witness ==
    /\ EnabledPolicy("cutoff-date")
    /\ Len(evals) = 2
    /\ evals[1].renewal_time = evals[2].renewal_time
    /\ evals[1].current_time < evals[2].current_time
    /\ evals[1].result /\ evals[2].result

\* C15: the construction of an ExpirationPolicy rejects a cutoff_date in age
\* mode, a missing cutoff_date in cutoff-date mode, and an
\* override_lease_duration in cutoff-date mode.
C15_ConstructionRejects ==
    (/\ policy.state # "none"
     /\ \/ policy.mode = "age" /\ policy.cutoff_date # None
        \/ policy.mode = "cutoff-date" /\ policy.cutoff_date = None
        \/ policy.mode = "cutoff-date" /\ policy.override_lease_duration # None)
    => policy.state = "rejected"

\* C15, amended: the construction rejects a missing cutoff_date in
\* cutoff-date mode and nothing else: a cutoff_date in age mode and an
\* override_lease_duration in cutoff-date mode are accepted.
C15_ConstructionRejectsMissingCutoff ==
    policy.state # "none" =>
        (policy.state = "rejected" <=> (policy.mode = "cutoff-date" /\ policy.cutoff_date = None))

\* C15 witness: a construction in cutoff-date mode without cutoff_date was rejected.
C15_Witness ==
    /\ policy.state = "rejected"
    /\ policy.mode = "cutoff-date"
    /\ policy.cutoff_date = None

(***************************************************************************)
(* Properties of the crawler history, under SpecHistory.                   *)
(***************************************************************************)
\* The n highest members of a set of cycle numbers.
Highest(cycles, n) == {c \in cycles : Cardinality({d \in cycles : d > c}) < n}

\* C16: for every retained_history_entries >= 1, crawler_history holds at
\* most retained_history_entries rows after add_history_entry returns.
C16_HistoryBounded ==
    last.op = "add_history_entry" => Cardinality(crawler_history) <= retained_history_entries

\* C17: once add_history_entry has been called for strictly increasing cycle
\* numbers, get_history holds exactly the retained_history_entries highest
\* cycle numbers added so far.
C17_HistoryKeepsNewest ==
    (added_cycles.cycles # {} /\ added_cycles.increasing) =>
        DOMAIN get_history(DB) = Highest(added_cycles.cycles, retained_history_entries)

\* C18: immediately after add_history_entry(c, entry), get_history()[c]
\* equals entry, also for a c that had an entry and for a c lower than every
\* retained cycle.
C18_HistoryRoundTrip ==
    last.op = "add_history_entry" =>
        /\ last.args[1] \in DOMAIN get_history(DB)
        /\ get_history(DB)[last.args[1]] = last.args[2]

\* C18, amended: immediately after add_history_entry(c, entry),
\* get_history()[c] is entry as JSON gives it back (a tuple comes back as a
\* list), also for a c that had an entry and for a c lower than every
\* retained cycle.
C18_HistoryJsonRoundTrip ==
    last.op = "add_history_entry" =>
        /\ last.args[1] \in DOMAIN get_history(DB)
        /\ get_history(DB)[last.args[1]] = loads(dumps(last.args[2]))

\* C18 witness: an entry holding a tuple was added for a cycle that had an
\* entry and that is lower than every other cycle retained.
C18_Witness ==
    /\ last.op = "add_history_entry"
    /\ added_cycles.replaced
    /\ last.args[2][1] = "tuple"
    /\ Cardinality(crawler_history) > 1
    /\ \A row \in crawler_history : row.cycle >= last.args[1]

(***************************************************************************)
(* Properties of the crawler's slice, under Spec.                          *)
(***************************************************************************)
\* The (si_s, shnum) of the files on disk under a prefix.
DiskSharesOf(prefix) == DiskShareIds({f \in disk : PrefixOf(f[1]) = prefix})

\* The (si_s, shnum) of the share rows of a prefix.
DbSharesOf(table, prefix) == {<<r.storage_index, r.shnum>> : r \in {s \in table : s.prefix = prefix}}

\* C19: after process_prefixdir for a prefix, with the disk unchanged, the
\* share rows of the prefix are the shares on disk under it; a share that had
\* a row and whose file is gone has no share row and no lease row.
C19_SliceReconciles ==
    [][last'.op = "process_prefixdir" =>
        /\ DbSharesOf(shares', last'.prefix) = DiskSharesOf(last'.prefix)
        /\ \A id \in DbSharesOf(shares, last'.prefix) \ DiskSharesOf(last'.prefix) :
              /\ RowsOf(shares', id[1], id[2]) = {}
              /\ RowsOf(leases', id[1], id[2]) = {}]_vars

\* C20: for every share on disk that has no share row, process_prefixdir
\* creates one share row with the used_space the backend reports, sharetype
\* unknown and state COMING, and exactly one lease on the same
\* (storage_index, shnum), of account 1 and lasting 5184000 seconds.
C20_OrphanDiscovery ==
    [][last'.op = "process_prefixdir" =>
        \A f \in {g \in disk : PrefixOf(g[1]) = last'.prefix} :
            RowsOf(shares, f[1], f[2]) = {} =>
                /\ Cardinality(RowsOf(shares', f[1], f[2])) = 1
                /\ \A s \in RowsOf(shares', f[1], f[2]) :
                      /\ s.used_space = f[3]
                      /\ s.sharetype = SHARETYPE_UNKNOWN
                      /\ s.state = STATE_COMING
                /\ Cardinality(RowsOf(leases', f[1], f[2])) = 1
                /\ \A l \in RowsOf(leases', f[1], f[2]) :
                      /\ l.account_id = 1
                      /\ l.expiration_time - l.renewal_time = 5184000]_vars

(***************************************************************************)
(* Properties of the lease-age histogram, under SpecHistogram.             *)
(***************************************************************************)
\* The count of a bin, 0 for a bin the histogram does not have.
CountOf(histogram, k) == IF \E item \in histogram : item[1] = k
                         THEN (CHOOSE item \in histogram : item[1] = k)[2]
                         ELSE 0

\* C27: a lease age added to the histogram is counted in the day bin
\* [k*86400, (k+1)*86400) with k = floor(age/86400), so that
\* bin_start <= age < bin_end, for negative ages too.
C27_HistogramBin ==
    [][last'.op = "add_lease_age_to_histogram" =>
        LET age == last'.args[1]
            k == age \div 86400
            bin == <<k * 86400, (k + 1) * 86400>>
        IN  /\ bin[1] <= age /\ age < bin[2]
            /\ CountOf(lease_age_histogram', bin) = CountOf(lease_age_histogram, bin) + 1]_vars

\* C21: process_prefixdir run a second time on the same prefix, the disk
\* unchanged since the first run, inserts, updates and deletes no share row
\* and no lease row.
C21_SliceIdempotent ==
    [][(/\ last.op = "process_prefixdir"
        /\ last'.op = "process_prefixdir"
        /\ last'.prefix = last.prefix) => (shares' = shares /\ leases' = leases)]_vars

\* The share rows that are STABLE now and have no row in the next state.
StableRowsRemoved == {r \in shares : r.state = STATE_STABLE /\ RowsOf(shares', r.storage_index, r.shnum) = {}}

\* C23: a STABLE share row is never deleted directly: a row that is STABLE
\* is not removed from the shares table before it has been moved to GOING.
C23_StableNotRemoved ==
    [][StableRowsRemoved = {}]_vars

\* C23, amended: a share row is removed while STABLE only by a call of
\* remove_deleted_share on that very share; no other operation of the lease
\* database or of the crawler removes a STABLE row.
C23_StableRemovedOnlyByRemoveDeletedShare ==
    [][\A r \in StableRowsRemoved : Called("remove_deleted_share", r.storage_index, r.shnum)]_vars

\* C23 witness: remove_deleted_share was called on a share whose committed
\* row is STABLE, and the row is gone.
C23_Witness ==
    /\ last.op = "remove_deleted_share"
    /\ \E r \in RowsOf(durable.shares, si_b2a(last.storage_index), last.shnum) : r.state = STATE_STABLE
    /\ RowsOf(shares, si_b2a(last.storage_index), last.shnum) = {}

\* C26: a failed batch is aborted: when a LeaseDB operation or a crawler
\* slice has raised, the mutations left uncommitted are not made durable by
\* a commit() that follows.
C26_FailedBatchAborted ==
    [][(last.raised # NoException /\ last'.op = "commit") => durable' = durable]_vars

\* C22: after an expiration sweep in which every backend delete succeeds, no
\* share with zero leases remains in the shares table, whatever the state
\* (COMING, STABLE or GOING) the unleased share was in before the sweep.
C22_SweepRemovesUnleased ==
    [][(last'.op = "expiration_sweep" /\ last'.args[3] = {}) =>
        \A r \in shares' : RowsOf(leases', r.storage_index, r.shnum) # {}]_vars

\* The share rows of a prefix that are being uploaded: added by
\* add_new_share and not yet marked STABLE.
Uploading(prefix) == {r \in shares : r.prefix = prefix /\ r.state = STATE_COMING}

\* C24: a slice of process_prefixdir that runs on a prefix while a share of
\* it is being uploaded (between add_new_share, the backend's write and
\* mark_share_as_stable) tolerates it: the slice does not fail, and it
\* removes neither the share row nor the leases of that share.
C24_SliceToleratesUpload ==
    [][(last'.op = "process_prefixdir" /\ Uploading(last'.prefix) # {}) =>
        /\ last'.raised = NoException
        /\ \A r \in Uploading(last'.prefix) :
              /\ r \in shares'
              /\ RowsOf(leases', r.storage_index, r.shnum) = RowsOf(leases, r.storage_index, r.shnum)]_vars

(***************************************************************************)
(* Properties of a raced slice, under SpecRace.                            *)
(***************************************************************************)
\* The shares the slice in progress discovered on disk that have got a row
\* since the slice queried the database.
RacedShares == (slice.disk_shares \ slice.db_shares) \cap DbSharesOf(shares, slice.prefix)

\* C25: when add_new_share raises ShareAlreadyInDatabaseError for a share
\* the slice discovered, the slice skips the share and does not abort: it
\* ends without exception, every share it found on disk has its row, and
\* the slice has committed.
C25_SliceSkipsKnownShare ==
    [][(slice.pending /\ RacedShares # {} /\ last'.op = "process_prefixdir") =>
        /\ last'.raised = NoException
        /\ slice.disk_shares \subseteq DbSharesOf(shares', slice.prefix)
        /\ ~dirty'
        /\ durable'.shares = shares']_vars

====
